---- MODULE Spec2Model ----
(***************************************************************************)
(* sigslot.h: signals (signal0..signal8), slot hosts (has_slots) and the   *)
(* three threading policies, as a state machine.                           *)
(*                                                                         *)
(* Every thread has a call stack of frames.  A frame is one activation of  *)
(* a library routine (connect, emit, signal_destroy, has_slots::disconnect)*)
(* or of a slot; a step of a thread runs its top frame from one blocking   *)
(* point (a lock() call, a call into a slot) to the next.  The arity       *)
(* classes signal0..signal8 share one body each for connect, emit and      *)
(* signal_destroy; the model carries one argument.                         *)
(***************************************************************************)
EXTENDS Integers, Sequences, FiniteSets, TLC

(* ------------------------------ objects ------------------------------- *)

\* Objects are named by their address: a signal and a slot host never share one.
Signals == {1, 2}
Receivers == {11, 12, 13}
Threads == {1, 2}
Args == {3, 4}

\* The largest number of connections alive at one time, over all signals.
MaxConns == 3

NULL == 0

\* Slots of the application.  ToggleState returns at once (main.cpp:19-22);
\* DisconnectSelf calls disconnect(this) on the signal that is emitting.
PlainSlots == {"ToggleState"}
ReentrantSlots == {"DisconnectSelf"}

\* A slot that destroys a slot host, Victim, unless that was done already.
DestroyingSlots == {"DestroyLamp"}
Victim == 12

\* A slot that connects its slot host once more to the signal that is
\* emitting, with the slot ToggleState, while there is room for a connection.
ConnectingSlots == {"ConnectMore"}

\* A slot that throws: the exception leaves _connection0::emit and, emit
\* having no handler, signal0::emit; the application catches it.
FailingSlots == {"Throws"}

\* A slot that destroys the object holding the signal that is emitting,
\* unless that was done already.
SelfDestroyingSlots == {"DestroySwitch"}

(* --------------------------- threading policy -------------------------- *)

single_threaded == "single_threaded"
multi_threaded_global == "multi_threaded_global"
multi_threaded_local == "multi_threaded_local"

\* What lock() does to a mutex the calling thread already holds.  The Posix
\* classes create the mutex with pthread_mutex_init(m, NULL); relocking such a
\* mutex is undefined: it blocks for ever where the default type is NORMAL and
\* returns EDEADLK (which lock() ignores) where it is ERRORCHECK.  The Win32
\* classes use a CRITICAL_SECTION, which counts recursive entries.
Platforms == {"posix_normal", "posix_errorcheck", "win32"}

\* The builds: a policy and, for the locking ones, the platform under it.
Builds ==
    {<<single_threaded, "posix_normal">>}
        \cup ({multi_threaded_global, multi_threaded_local} \X Platforms)

VARIABLES
    policy,             \* mt_policy of every signal and slot host
    platform,           \* the mutex the build gives the policy
    sigAlive,           \* signal -> constructed and not yet destroyed
    rcvAlive,           \* slot host -> constructed and not yet destroyed
    m_connected_slots,  \* signal -> its connections_list, a sequence
    m_senders,          \* slot host -> its sender_set
    mutex,              \* mutex -> <<owning thread, entry count>>
    stack,              \* thread -> its call stack, innermost frame last
    pre,                \* thread -> lists and sets when its operation began
    ub,                 \* the undefined behaviours executed so far
    crashed             \* the process was ended by one of them

vars ==
    <<policy, platform, sigAlive, rcvAlive, m_connected_slots, m_senders,
      mutex, stack, pre, ub, crashed>>

(* ------------------------------ mutexes ------------------------------- *)

GlobalMutex == 0
Mutexes == {GlobalMutex} \cup Signals \cup Receivers
Free == <<0, 0>>

\* get_mutex() of multi_threaded_global is one static; multi_threaded_local
\* holds m_mutex in the object.
MutexOf(o) == IF policy = multi_threaded_global THEN GlobalMutex ELSE o

\* CanLock, did lock() never wait.
CanLockAlways(mx, t, o) == TRUE

\* lock() returns: at once for single_threaded, when the mutex is free, or
\* when the caller holds it already and the platform lets it through.
CanLock(mx, t, o) ==
    \/ policy = single_threaded
    \/ mx[MutexOf(o)] = Free
    \/ mx[MutexOf(o)][1] = t /\ platform # "posix_normal"

\* The mutexes after lock() returned to thread t.
Lock(mx, t, o) ==
    IF policy = single_threaded THEN mx
    ELSE IF mx[MutexOf(o)] = Free THEN [mx EXCEPT ![MutexOf(o)] = <<t, 1>>]
    ELSE IF platform = "win32" THEN [mx EXCEPT ![MutexOf(o)] = <<t, @[2] + 1>>]
    ELSE mx

\* lock() on a mutex the thread holds already, where that is undefined.
Relocks(mx, t, o) ==
    /\ policy # single_threaded
    /\ platform # "win32"
    /\ mx[MutexOf(o)][1] = t

\* Unlock, were the mutex never released.
UnlockNothing(mx, t, o) == mx

\* The mutexes after unlock() by thread t.  A NORMAL mutex is released
\* whoever holds it; an ERRORCHECK mutex returns EPERM to a thread that does
\* not hold it; a critical section leaves one level.
Unlock(mx, t, o) ==
    IF policy = single_threaded THEN mx
    ELSE IF platform = "posix_normal" THEN [mx EXCEPT ![MutexOf(o)] = Free]
    ELSE IF mx[MutexOf(o)][1] # t THEN mx
    ELSE IF mx[MutexOf(o)][2] > 1
        THEN [mx EXCEPT ![MutexOf(o)] = <<t, @[2] - 1>>]
    ELSE [mx EXCEPT ![MutexOf(o)] = Free]

(* --------------------------- std::list, std::set ----------------------- *)

\* A list iterator is the position of its node; End is end(), and Dangling an
\* iterator whose node was erased.
End == 0
Dangling == -1

\* Begin, did begin() give the last node to an emit that follows an emit.
BeginWhereLastEnded(list) ==
    IF Len(list) = 0 THEN End
    ELSE IF \E t \in DOMAIN stack :
                /\ Len(stack[t]) = 1
                /\ stack[t][1].op = "returned"
                /\ stack[t][1].call = "emit"
        THEN Len(list)
    ELSE 1

Begin(list) == IF Len(list) = 0 THEN End ELSE 1
Succ(list, it) == IF it < Len(list) THEN it + 1 ELSE End

\* Erase, did erase(it) leave the node in the list.
EraseNothing(list, k) == list

Erase(list, k) ==
    [i \in 1..(Len(list) - 1) |-> IF i < k THEN list[i] ELSE list[i + 1]]

\* What erasing node k does to another iterator into the same list.
AfterErase(it, k) ==
    IF it = k THEN Dangling ELSE IF it > k THEN it - 1 ELSE it

\* sender_set orders the signals by address.
SetBegin(S) == IF S = {} THEN End ELSE CHOOSE x \in S : \A y \in S : x <= y
SetSucc(S, it) == SetBegin({x \in S : x > it})

(* ------------------------------- frames ------------------------------- *)

\* A _connection0: its m_pobject and m_pmemfun.
Connection(r, cb) == [dest |-> r, cb |-> cb]

ConnectFrame(s, r, cb) == [op |-> "connect", s |-> s, r |-> r, cb |-> cb]
\* What the memory of erased nodes still holds, should it be read: the
\* connections of the nodes a dangling iterator leads through, and the node
\* the last of them was linked to.
NoStale == [chain |-> <<>>, next |-> End]

EmitFrame(s, a, it) ==
    [op |-> "emit", s |-> s, a |-> a, it |-> it, itNext |-> End, log |-> <<>>,
     stale |-> NoStale]
SlotFrame(s, r, cb) == [op |-> "slot", s |-> s, r |-> r, cb |-> cb]
SignalDestroyFrame(s, destroy, pslot, it) ==
    [op |-> "signal_destroy", s |-> s, destroy |-> destroy, pslot |-> pslot,
     it |-> it]
HasSlotsFrame(r, dtor, it) ==
    [op |-> "has_slots_disconnect", r |-> r, dtor |-> dtor, it |-> it]

\* What is left on the stack when the application's call has returned and
\* the application has not gone on yet: the call, and what emit invoked.
Returned(call, s, r, a, log) ==
    [op |-> "returned", call |-> call, s |-> s, r |-> r, a |-> a, log |-> log]

Snapshot == [conns |-> m_connected_slots, senders |-> m_senders]
NoSnapshot ==
    [conns |-> [s \in Signals |-> <<>>], senders |-> [r \in Receivers |-> {}]]

Top(t) == stack[t][Len(stack[t])]
Running(t) == ~crashed /\ Len(stack[t]) > 0
Idle(t) == ~crashed /\ Len(stack[t]) = 0

RECURSIVE SumLen(_)
SumLen(S) ==
    IF S = {} THEN 0
    ELSE LET s == CHOOSE x \in S : TRUE
         IN Len(m_connected_slots[s]) + SumLen(S \ {s})
TotalConns == SumLen(Signals)

\* The application does not start an operation on an object whose destructor
\* is running, and does not destroy an object another thread is operating on.
Destroying(o) ==
    \E t \in Threads : \E i \in DOMAIN stack[t] :
        \/ stack[t][i].op = "signal_destroy"
             /\ stack[t][i].destroy /\ stack[t][i].s = o
        \/ stack[t][i].op = "has_slots_disconnect"
             /\ stack[t][i].dtor /\ stack[t][i].r = o
NamedBy(f, o) ==
    \/ f.op \in {"connect", "emit", "signal_destroy"} /\ f.s = o
    \/ f.op \in {"connect", "has_slots_disconnect"} /\ f.r = o
    \/ f.op = "signal_destroy" /\ f.pslot = o
InUse(o) ==
    \E t \in Threads : Len(stack[t]) > 0 /\ NamedBy(stack[t][1], o)
SignalUsable(s) == sigAlive[s] /\ ~Destroying(s)
ReceiverUsable(r) == rcvAlive[r] /\ ~Destroying(r)

\* The iterators of the running emit and signal_destroy calls on signal s
\* after node k of its list was erased.
StaleAfterErase(f, list, k) ==
    LET after == IF k < Len(list) THEN k ELSE End
    IN  IF f.itNext = k \/ (f.it = k /\ f.itNext # Dangling)
            THEN [chain |-> <<list[k]>>, next |-> after]
        ELSE IF f.stale.chain # <<>> /\ f.stale.next = k
            THEN [chain |-> Append(f.stale.chain, list[k]), next |-> after]
        ELSE [f.stale EXCEPT !.next = AfterErase(@, k)]
FixFrame(f, s, k) ==
    IF f.op = "emit" /\ f.s = s
        THEN [f EXCEPT !.it = AfterErase(@, k), !.itNext = AfterErase(@, k),
                       !.stale = StaleAfterErase(f, m_connected_slots[s], k)]
    ELSE IF f.op = "signal_destroy" /\ f.s = s
        THEN [f EXCEPT !.it = AfterErase(@, k)]
    ELSE f
FixStacks(stk, s, k) ==
    [t \in Threads |-> [i \in DOMAIN stk[t] |-> FixFrame(stk[t][i], s, k)]]

\* Resume, did emit read the successor of `it` after the slot returned.
ResumeFromList(f, senders) ==
    IF f.op = "has_slots_disconnect"
        THEN [f EXCEPT !.it = SetSucc(senders[f.r], @)]
    ELSE IF f.op = "emit"
        THEN [f EXCEPT !.it = IF @ > 0 /\ @ < Len(m_connected_slots[f.s])
                                THEN @ + 1 ELSE End]
    ELSE f

\* The caller's frame when the call it made returns.
Resume(f, senders) ==
    IF f.op = "has_slots_disconnect"
        THEN [f EXCEPT !.it = SetSucc(senders[f.r], @)]
    ELSE IF f.op = "emit"
        THEN [f EXCEPT !.it = f.itNext,
                       !.stale = IF f.itNext = Dangling THEN @ ELSE NoStale]
    ELSE f

\* Thread t's stack after its top frame returned.  A slot that has made its
\* one call returns with it, to the emit that invoked it; a call of the
\* application leaves `returned`.
Return(stk, t, senders, returned) ==
    LET n == Len(stk[t])
        m == IF n >= 3 /\ stk[t][n - 1].op = "slot" THEN n - 2 ELSE n - 1
    IN  IF m = 0 THEN [stk EXCEPT ![t] = <<returned>>]
        ELSE [stk EXCEPT ![t] =
                 Append(SubSeq(@, 1, m - 1), Resume(@[m], senders))]

Push(stk, t, f) == [stk EXCEPT ![t] = Append(@, f)]
ReplaceTop(stk, t, f) == [stk EXCEPT ![t] = [@ EXCEPT ![Len(@)] = f]]

(* ------------------------- signal0: connect --------------------------- *)

UbLock(t, o) == IF Relocks(mutex, t, o) THEN {"relock"} ELSE {}

\* PushBack, did connect put the connection at the front of the list.
PushFront(list, c) == <<c>> \o list

\* PushBack, did connect look for an equal connection first.
PushBackUnique(list, c) ==
    IF \E i \in DOMAIN list : list[i] = c THEN list ELSE Append(list, c)

\* m_connected_slots.push_back(conn): the list is not searched.
PushBack(list, c) == Append(list, c)

\* connect, to the push_back: lock_block lock(this); new _connection0;
\* m_connected_slots.push_back(conn).
Connect(t, s, r, cb) ==
    /\ Idle(t)
    /\ SignalUsable(s) /\ ReceiverUsable(r)
    /\ TotalConns < MaxConns
    /\ CanLock(mutex, t, s)
    /\ mutex' = Lock(mutex, t, s)
    /\ ub' = ub \cup UbLock(t, s)
    /\ m_connected_slots' =
           [m_connected_slots EXCEPT ![s] = PushBack(@, Connection(r, cb))]
    /\ stack' = Push(stack, t, ConnectFrame(s, r, cb))
    /\ pre' = [pre EXCEPT ![t] = Snapshot]
    /\ UNCHANGED <<policy, platform, sigAlive, rcvAlive, m_senders, crashed>>

\* signal_connect, did it insert into an empty sender set only.
SignalConnectOnce(senders, r, s) ==
    IF senders[r] = {} THEN [senders EXCEPT ![r] = {s}] ELSE senders

\* signal_connect, were the insert left out.
SignalConnectNothing(senders, r, s) == senders

\* has_slots::signal_connect: m_senders.insert(sender).
SignalConnect(senders, r, s) == [senders EXCEPT ![r] = @ \cup {s}]

\* SignalDisconnect, did it empty the sender set.
SignalDisconnectAll(senders, r, s) == [senders EXCEPT ![r] = {}]

\* has_slots::signal_disconnect: m_senders.erase(sender).
SignalDisconnect(senders, r, s) == [senders EXCEPT ![r] = @ \ {s}]

\* connect, from pclass->signal_connect(this), which locks the slot host,
\* to the return, which unlocks the signal.
ConnectFinish(t) ==
    /\ Running(t)
    /\ Top(t).op = "connect"
    /\ LET f == Top(t)
       IN  /\ CanLock(mutex, t, f.r)
           /\ ub' = ub \cup UbLock(t, f.r)
           /\ m_senders' = SignalConnect(m_senders, f.r, f.s)
           /\ mutex' = Unlock(Unlock(Lock(mutex, t, f.r), t, f.r), t, f.s)
           /\ stack' = Return(stack, t, m_senders,
                              Returned("connect", f.s, f.r, NULL, <<>>))
    /\ UNCHANGED <<policy, platform, sigAlive, rcvAlive, m_connected_slots,
                   pre, crashed>>

(* --------------------------- signal0: emit ---------------------------- *)

\* emit, to the loop: lock_block lock(this); it = m_connected_slots.begin().
Emit(t, s, a) ==
    /\ Idle(t)
    /\ SignalUsable(s)
    /\ CanLock(mutex, t, s)
    /\ mutex' = Lock(mutex, t, s)
    /\ ub' = ub \cup UbLock(t, s)
    /\ stack' = Push(stack, t, EmitFrame(s, a, Begin(m_connected_slots[s])))
    /\ pre' = [pre EXCEPT ![t] = Snapshot]
    /\ UNCHANGED <<policy, platform, sigAlive, rcvAlive, m_connected_slots,
                   m_senders, crashed>>

\* What _connection0::emit passes to the slot: (m_pobject->*m_pmemfun)(a1).
Invocation(c, a) == [dest |-> c.dest, cb |-> c.cb, a |-> a]

\* Lookahead, were ++itNext applied twice.
LookaheadSkips(list, it) == IF it + 1 < Len(list) THEN it + 2 ELSE End

\* itNext = it; ++itNext: the node emit goes to after the slot returns.
Lookahead(list, it) == Succ(list, it)

\* One turn of emit's loop: itNext = it; ++itNext; (*it)->emit(); it = itNext.
\* A plain slot returns at once; any other is entered and makes its call in a
\* step of its own.  Reading an erased node, or calling a destroyed slot
\* host, is undefined: the process ends, or the memory is still what it was
\* and the loop goes on with what it reads there.
EmitInvoke(t) ==
    /\ Running(t)
    /\ Top(t).op = "emit"
    /\ Top(t).it # End
    /\ LET f == Top(t)
           list == m_connected_slots[f.s]
           erased == f.it = Dangling
           c == IF erased THEN f.stale.chain[1] ELSE list[f.it]
           next == IF ~erased THEN Lookahead(list, f.it)
                   ELSE IF Len(f.stale.chain) > 1 THEN Dangling
                   ELSE f.stale.next
           left == IF erased /\ Len(f.stale.chain) > 1
                     THEN [f.stale EXCEPT !.chain = Tail(@)]
                     ELSE NoStale
           g == [f EXCEPT !.itNext = next, !.stale = left,
                          !.log = Append(@, Invocation(c, f.a))]
       IN  /\ ub' = ub \cup (IF erased THEN {"erased_node"} ELSE {})
                       \cup (IF rcvAlive[c.dest] THEN {}
                             ELSE {"destroyed_receiver"})
           /\ IF erased \/ ~rcvAlive[c.dest] THEN crashed' \in BOOLEAN
              ELSE crashed' = crashed
           /\ stack' =
                IF c.cb \in PlainSlots
                  THEN ReplaceTop(stack, t, [g EXCEPT !.it = next])
                  ELSE Push(ReplaceTop(stack, t, g), t,
                            SlotFrame(f.s, c.dest, c.cb))
    /\ UNCHANGED <<policy, platform, sigAlive, rcvAlive, m_connected_slots,
                   m_senders, mutex, pre>>

\* emit, when it == itEnd: the lock_block goes out of scope, and its
\* destructor calls m_mutex->unlock(), a virtual function of the signal.  On
\* a signal whose destructor has run the call is undefined: the process ends,
\* or the call goes where it went before.
EmitReturn(t) ==
    /\ Running(t)
    /\ Top(t).op = "emit"
    /\ Top(t).it = End
    /\ LET f == Top(t)
       IN  \E ends \in (IF sigAlive[f.s] THEN {FALSE} ELSE BOOLEAN) :
               /\ crashed' = ends
               /\ ub' = ub \cup (IF sigAlive[f.s] THEN {}
                                 ELSE {"destroyed_signal"})
               /\ mutex' = IF ends THEN mutex ELSE Unlock(mutex, t, f.s)
               /\ stack' = IF ends THEN stack
                           ELSE Return(stack, t, m_senders,
                                       Returned("emit", f.s, NULL, f.a, f.log))
    /\ UNCHANGED <<policy, platform, sigAlive, rcvAlive, m_connected_slots,
                   m_senders, pre>>

\* The slot DisconnectSelf: signal.disconnect(this), which enters
\* signal_destroy(false, this) and locks the signal.
SlotDisconnectSelf(t) ==
    /\ Running(t)
    /\ Top(t).op = "slot"
    /\ Top(t).cb = "DisconnectSelf"
    /\ LET f == Top(t)
       IN  /\ CanLock(mutex, t, f.s)
           /\ mutex' = Lock(mutex, t, f.s)
           /\ ub' = ub \cup UbLock(t, f.s)
           /\ stack' = Push(stack, t,
                            SignalDestroyFrame(f.s, FALSE, f.r,
                                               Begin(m_connected_slots[f.s])))
    /\ UNCHANGED <<policy, platform, sigAlive, rcvAlive, m_connected_slots,
                   m_senders, pre, crashed>>

\* Unwinds, had emit a handler around the call of the slot.
UnwindsSlotOnly(f) == f.op = "slot"

\* The frames an exception thrown by a slot passes through: neither
\* _connection0::emit nor signal0::emit has a try block.
Unwinds(f) == f.op \in {"slot", "emit"}

\* The slot Throws.  Unwinding emit runs the destructor of its lock_block;
\* the statements after the call, it = itNext and the rest of the loop, are
\* not executed.
SlotThrows(t) ==
    /\ Running(t)
    /\ Top(t).op = "slot"
    /\ Top(t).cb \in FailingSlots
    /\ LET n == Len(stack[t])
           e == stack[t][n - 1]
       IN  IF Unwinds(e)
             THEN /\ mutex' = Unlock(mutex, t, e.s)
                  /\ stack' =
                       [stack EXCEPT ![t] =
                           Append(SubSeq(@, 1, n - 2),
                                  Returned("emit throws", e.s, NULL, e.a,
                                           e.log))]
             ELSE /\ mutex' = mutex
                  /\ stack' =
                       [stack EXCEPT ![t] =
                           Append(SubSeq(@, 1, n - 2), Resume(e, m_senders))]
    /\ UNCHANGED <<policy, platform, sigAlive, rcvAlive, m_connected_slots,
                   m_senders, pre, ub, crashed>>

(* ------------------- signal0: disconnect, ~signal0 -------------------- *)

\* disconnect(pslot): signal_destroy(false, pslot), to its loop.
Disconnect(t, s, pslot) ==
    /\ Idle(t)
    /\ SignalUsable(s)
    /\ IF pslot = NULL THEN TRUE ELSE ReceiverUsable(pslot)
    /\ CanLock(mutex, t, s)
    /\ mutex' = Lock(mutex, t, s)
    /\ ub' = ub \cup UbLock(t, s)
    /\ stack' = Push(stack, t,
                     SignalDestroyFrame(s, FALSE, pslot,
                                        Begin(m_connected_slots[s])))
    /\ pre' = [pre EXCEPT ![t] = Snapshot]
    /\ UNCHANGED <<policy, platform, sigAlive, rcvAlive, m_connected_slots,
                   m_senders, crashed>>

\* ~signal0: signal_destroy(true), to its loop.
DestroySignal(t, s) ==
    /\ Idle(t)
    /\ SignalUsable(s)
    /\ ~InUse(s)
    /\ CanLock(mutex, t, s)
    /\ mutex' = Lock(mutex, t, s)
    /\ ub' = ub \cup UbLock(t, s)
    /\ stack' = Push(stack, t,
                     SignalDestroyFrame(s, TRUE, NULL,
                                        Begin(m_connected_slots[s])))
    /\ pre' = [pre EXCEPT ![t] = Snapshot]
    /\ UNCHANGED <<policy, platform, sigAlive, rcvAlive, m_connected_slots,
                   m_senders, crashed>>

\* NotifiesDest, were signal_disconnect called by disconnect as well.
NotifiesAlways(destroy) == TRUE

\* Erases, were a null pslot not taken for every slot host.
ErasesOnlyTarget(c, pslot) == c.dest = pslot

\* NotifiesDest, were signal_disconnect never called.
NotifiesNever(destroy) == FALSE

\* Erases, were the comparison with pslot left out.
ErasesOnlyAll(c, pslot) == pslot = NULL

\* Erases, were the comparison with pslot inverted.
ErasesOthers(c, pslot) == pslot = NULL \/ c.dest # pslot

\* if (destroy) (*it)->getdest()->signal_disconnect(this).
NotifiesDest(destroy) == destroy

\* if (pslot == NULL || (*it)->getdest() == pslot): the node is deleted.
Erases(c, pslot) == pslot = NULL \/ c.dest = pslot

\* One turn of signal_destroy's loop.  signal_disconnect locks the slot host,
\* erases and unlocks; erase(it) leaves itNext valid.
SignalDestroyStep(t) ==
    /\ Running(t)
    /\ Top(t).op = "signal_destroy"
    /\ Top(t).it # End
    /\ LET f == Top(t)
           list == m_connected_slots[f.s]
       IN  IF f.it = Dangling
             THEN /\ ub' = ub \cup {"erased_node"}
                  /\ crashed' = TRUE
                  /\ UNCHANGED <<m_connected_slots, m_senders, mutex, stack>>
             ELSE LET c == list[f.it]
                      itNext == Succ(list, f.it)
                      notify == NotifiesDest(f.destroy)
                      gone == notify /\ ~rcvAlive[c.dest]
                  IN  /\ notify => CanLock(mutex, t, c.dest)
                      /\ ub' = ub \cup (IF notify THEN UbLock(t, c.dest) ELSE {})
                                  \cup (IF gone THEN {"destroyed_receiver"} ELSE {})
                      /\ IF gone THEN crashed' \in BOOLEAN
                         ELSE crashed' = crashed
                      /\ m_senders' =
                           IF notify
                             THEN SignalDisconnect(m_senders, c.dest, f.s)
                             ELSE m_senders
                      /\ mutex' =
                           IF notify
                             THEN Unlock(Lock(mutex, t, c.dest), t, c.dest)
                             ELSE mutex
                      /\ IF Erases(c, f.pslot)
                           THEN /\ m_connected_slots' =
                                     [m_connected_slots EXCEPT
                                         ![f.s] = Erase(@, f.it)]
                                /\ stack' =
                                     ReplaceTop(
                                         FixStacks(stack, f.s, f.it), t,
                                         [f EXCEPT
                                             !.it = AfterErase(itNext, f.it)])
                           ELSE /\ m_connected_slots' = m_connected_slots
                                /\ stack' =
                                     ReplaceTop(stack, t,
                                                [f EXCEPT !.it = itNext])
    /\ UNCHANGED <<policy, platform, sigAlive, rcvAlive, pre>>

\* signal_destroy, when it == itEnd: the lock_block goes out of scope; in
\* ~signal0 the list and the policy are destroyed after it.
SignalDestroyReturn(t) ==
    /\ Running(t)
    /\ Top(t).op = "signal_destroy"
    /\ Top(t).it = End
    /\ LET f == Top(t)
       IN  /\ mutex' = Unlock(mutex, t, f.s)
           /\ sigAlive' = IF f.destroy THEN [sigAlive EXCEPT ![f.s] = FALSE]
                          ELSE sigAlive
           /\ stack' = Return(stack, t, m_senders,
                              Returned(IF f.destroy THEN "~signal0"
                                       ELSE "disconnect",
                                       f.s, f.pslot, NULL, <<>>))
    /\ UNCHANGED <<policy, platform, rcvAlive, m_connected_slots, m_senders,
                   pre, ub, crashed>>

(* ------------------------------ has_slots ----------------------------- *)

\* has_slots::disconnect, to its loop: lock_block lock(this);
\* it = m_senders.begin().
ReceiverDisconnect(t, r) ==
    /\ Idle(t)
    /\ ReceiverUsable(r)
    /\ CanLock(mutex, t, r)
    /\ mutex' = Lock(mutex, t, r)
    /\ ub' = ub \cup UbLock(t, r)
    /\ stack' = Push(stack, t, HasSlotsFrame(r, FALSE, SetBegin(m_senders[r])))
    /\ pre' = [pre EXCEPT ![t] = Snapshot]
    /\ UNCHANGED <<policy, platform, sigAlive, rcvAlive, m_connected_slots,
                   m_senders, crashed>>

\* ~has_slots: disconnect(), to its loop.
DestroyReceiver(t, r) ==
    /\ Idle(t)
    /\ ReceiverUsable(r)
    /\ ~InUse(r)
    /\ CanLock(mutex, t, r)
    /\ mutex' = Lock(mutex, t, r)
    /\ ub' = ub \cup UbLock(t, r)
    /\ stack' = Push(stack, t, HasSlotsFrame(r, TRUE, SetBegin(m_senders[r])))
    /\ pre' = [pre EXCEPT ![t] = Snapshot]
    /\ UNCHANGED <<policy, platform, sigAlive, rcvAlive, m_connected_slots,
                   m_senders, crashed>>

\* One turn of has_slots::disconnect's loop: (*it)->disconnect(this), which
\* enters signal_destroy(false, this) and locks the signal.  Calling a signal
\* whose destructor has run is undefined: the process ends, or the call finds
\* nothing in what is left of the list.
HasSlotsCall(t) ==
    /\ Running(t)
    /\ Top(t).op = "has_slots_disconnect"
    /\ Top(t).it # End
    /\ LET f == Top(t)
           s == f.it
       IN  IF ~sigAlive[s]
             THEN /\ ub' = ub \cup {"destroyed_signal"}
                  /\ crashed' \in BOOLEAN
                  /\ stack' = ReplaceTop(stack, t, Resume(f, m_senders))
                  /\ UNCHANGED mutex
             ELSE /\ CanLock(mutex, t, s)
                  /\ mutex' = Lock(mutex, t, s)
                  /\ ub' = ub \cup UbLock(t, s)
                  /\ crashed' = crashed
                  /\ stack' = Push(stack, t,
                                   SignalDestroyFrame(
                                       s, FALSE, f.r,
                                       Begin(m_connected_slots[s])))
    /\ UNCHANGED <<policy, platform, sigAlive, rcvAlive, m_connected_slots,
                   m_senders, pre>>

\* has_slots::disconnect, when it == itEnd: m_senders.clear(), and the
\* lock_block goes out of scope; in ~has_slots the set and the policy are
\* destroyed after it.
HasSlotsReturn(t) ==
    /\ Running(t)
    /\ Top(t).op = "has_slots_disconnect"
    /\ Top(t).it = End
    /\ LET f == Top(t)
       IN  /\ m_senders' = [m_senders EXCEPT ![f.r] = {}]
           /\ mutex' = Unlock(mutex, t, f.r)
           /\ rcvAlive' = IF f.dtor THEN [rcvAlive EXCEPT ![f.r] = FALSE]
                          ELSE rcvAlive
           /\ stack' = Return(stack, t, m_senders',
                              Returned(IF f.dtor THEN "~has_slots"
                                       ELSE "has_slots::disconnect",
                                       NULL, f.r, NULL, <<>>))
    /\ UNCHANGED <<policy, platform, sigAlive, m_connected_slots, pre, ub,
                   crashed>>

\* The slot ConnectMore: signal.connect(this, &ToggleState), to the
\* push_back; or nothing, when the connections are MaxConns.
SlotConnects(t) ==
    /\ Running(t)
    /\ Top(t).op = "slot"
    /\ Top(t).cb \in ConnectingSlots
    /\ LET f == Top(t)
       IN  IF TotalConns < MaxConns
             THEN /\ CanLock(mutex, t, f.s)
                  /\ mutex' = Lock(mutex, t, f.s)
                  /\ ub' = ub \cup UbLock(t, f.s)
                  /\ m_connected_slots' =
                         [m_connected_slots EXCEPT
                             ![f.s] = PushBack(@, Connection(f.r, "ToggleState"))]
                  /\ stack' = Push(stack, t,
                                   ConnectFrame(f.s, f.r, "ToggleState"))
             ELSE /\ stack' = Return(stack, t, m_senders, f)
                  /\ UNCHANGED <<mutex, ub, m_connected_slots>>
    /\ UNCHANGED <<policy, platform, sigAlive, rcvAlive, m_senders, pre,
                   crashed>>

\* The slot DestroyLamp: the destructor of Victim, ~has_slots, which enters
\* disconnect() and locks Victim; or nothing, when Victim is gone.
SlotDestroys(t) ==
    /\ Running(t)
    /\ Top(t).op = "slot"
    /\ Top(t).cb \in DestroyingSlots
    /\ IF ReceiverUsable(Victim)
         THEN /\ CanLock(mutex, t, Victim)
              /\ mutex' = Lock(mutex, t, Victim)
              /\ ub' = ub \cup UbLock(t, Victim)
              /\ stack' = Push(stack, t,
                               HasSlotsFrame(Victim, TRUE,
                                             SetBegin(m_senders[Victim])))
         ELSE /\ stack' = Return(stack, t, m_senders, Top(t))
              /\ UNCHANGED <<mutex, ub>>
    /\ UNCHANGED <<policy, platform, sigAlive, rcvAlive, m_connected_slots,
                   m_senders, pre, crashed>>

\* The slot DestroySwitch: the destructor of the signal that is emitting,
\* ~signal0, which enters signal_destroy(true) and locks the signal; or
\* nothing, when the signal is gone.
SlotDestroysSignal(t) ==
    /\ Running(t)
    /\ Top(t).op = "slot"
    /\ Top(t).cb \in SelfDestroyingSlots
    /\ LET f == Top(t)
       IN  IF SignalUsable(f.s)
             THEN /\ CanLock(mutex, t, f.s)
                  /\ mutex' = Lock(mutex, t, f.s)
                  /\ ub' = ub \cup UbLock(t, f.s)
                  /\ stack' = Push(stack, t,
                                   SignalDestroyFrame(
                                       f.s, TRUE, NULL,
                                       Begin(m_connected_slots[f.s])))
             ELSE /\ stack' = Return(stack, t, m_senders, f)
                  /\ UNCHANGED <<mutex, ub>>
    /\ UNCHANGED <<policy, platform, sigAlive, rcvAlive, m_connected_slots,
                   m_senders, pre, crashed>>

(* --------------------------- the application -------------------------- *)

\* The call of the application has returned: it goes on to its next statement.
GoOn(t) ==
    /\ Running(t)
    /\ Top(t).op = "returned"
    /\ stack' = [stack EXCEPT ![t] = <<>>]
    /\ pre' = [pre EXCEPT ![t] = NoSnapshot]
    /\ UNCHANGED <<policy, platform, sigAlive, rcvAlive, m_connected_slots,
                   m_senders, mutex, ub, crashed>>

\* The constructor of one more signal or slot host.  multi_threaded_local
\* initialises the new object's own mutex.  The Posix multi_threaded_global
\* calls pthread_mutex_init(get_mutex(), NULL) on the one static mutex every
\* time; on a mutex that is locked this is undefined, and leaves it unlocked
\* or as it was.  The Win32 class initialises once (isinitialised).
Construct(t) ==
    /\ Idle(t)
    /\ IF policy = multi_threaded_global /\ platform # "win32"
            /\ mutex[GlobalMutex] # Free
         THEN /\ ub' = ub \cup {"mutex_reinit"}
              /\ \E m \in {Free, mutex[GlobalMutex]} :
                     mutex' = [mutex EXCEPT ![GlobalMutex] = m]
         ELSE UNCHANGED <<mutex, ub>>
    /\ UNCHANGED <<policy, platform, sigAlive, rcvAlive, m_connected_slots,
                   m_senders, stack, pre, crashed>>

\* The application calls emit on the signal whose emit has just returned, as
\* its next statement; what the first emit invoked is kept for comparison.
EmitAgain(t, a) ==
    /\ Running(t)
    /\ Top(t).op = "returned"
    /\ Top(t).call = "emit"
    /\ "last" \notin DOMAIN pre[t]
    /\ LET s == Top(t).s
       IN  /\ SignalUsable(s)
           /\ CanLock(mutex, t, s)
           /\ mutex' = Lock(mutex, t, s)
           /\ ub' = ub \cup UbLock(t, s)
           /\ stack' = [stack EXCEPT
                            ![t] = <<EmitFrame(s, a, Begin(m_connected_slots[s]))>>]
           /\ pre' = [pre EXCEPT
                          ![t] = [conns |-> m_connected_slots,
                                  senders |-> m_senders,
                                  last |-> Top(t).log]]
    /\ UNCHANGED <<policy, platform, sigAlive, rcvAlive, m_connected_slots,
                   m_senders, crashed>>

(* ------------------------- the specifications ------------------------- *)

\* The policy a signal or slot host declared without one gets
\* (SIGSLOT_DEFAULT_MT_POLICY): single_threaded without thread support,
\* multi_threaded_local with it.
DefaultBuilds ==
    {<<single_threaded, "posix_normal">>,
     <<multi_threaded_local, "posix_normal">>}

InitIn(builds) ==
    /\ \E b \in builds : policy = b[1] /\ platform = b[2]
    /\ sigAlive = [s \in Signals |-> TRUE]
    /\ rcvAlive = [r \in Receivers |-> TRUE]
    /\ m_connected_slots = [s \in Signals |-> <<>>]
    /\ m_senders = [r \in Receivers |-> {}]
    /\ mutex = [m \in Mutexes |-> Free]
    /\ stack = [t \in Threads |-> <<>>]
    /\ pre = [t \in Threads |-> NoSnapshot]
    /\ ub = {}
    /\ crashed = FALSE

\* The steps of the library routines, whoever called them.
Library(t) ==
    \/ ConnectFinish(t)
    \/ EmitInvoke(t)
    \/ EmitReturn(t)
    \/ SignalDestroyStep(t)
    \/ SignalDestroyReturn(t)
    \/ HasSlotsCall(t)
    \/ HasSlotsReturn(t)

\* The calls of an application such as main.cpp.
Application(t, slots) ==
    \/ \E s \in Signals, r \in Receivers, cb \in slots : Connect(t, s, r, cb)
    \/ \E s \in Signals, a \in Args : Emit(t, s, a)
    \/ \E s \in Signals, pslot \in Receivers \cup {NULL} : Disconnect(t, s, pslot)
    \/ \E s \in Signals : DestroySignal(t, s)
    \/ \E r \in Receivers : ReceiverDisconnect(t, r)
    \/ \E r \in Receivers : DestroyReceiver(t, r)
    \/ GoOn(t)

\* One thread, slots that call nothing: main.cpp, with its calls in any order.
MainThread == 1
Init == InitIn(DefaultBuilds)
Next == Application(MainThread, PlainSlots) \/ Library(MainThread)
Spec == Init /\ [][Next]_vars

\* One thread, every build, one signal in use, and slots that may call
\* disconnect(this) on the signal that invokes them.
Clicked == 1
InitReentrant == InitIn(Builds)
NextReentrant ==
    \/ \E r \in Receivers, cb \in PlainSlots \cup ReentrantSlots :
           Connect(MainThread, Clicked, r, cb)
    \/ \E a \in Args : Emit(MainThread, Clicked, a)
    \/ GoOn(MainThread)
    \/ ConnectFinish(MainThread)
    \/ EmitInvoke(MainThread)
    \/ EmitReturn(MainThread)
    \/ SlotDisconnectSelf(MainThread)
    \/ SignalDestroyStep(MainThread)
    \/ SignalDestroyReturn(MainThread)
SpecReentrant == InitReentrant /\ [][NextReentrant]_vars

\* One thread, every build, one signal and two slot hosts, every call of the
\* interface, and slots that return or throw.
Lamps == {11, 12}
InitBuilds == InitIn(Builds)
NextBuilds ==
    \/ \E r \in Lamps, cb \in PlainSlots \cup FailingSlots :
           Connect(MainThread, Clicked, r, cb)
    \/ \E a \in Args : Emit(MainThread, Clicked, a)
    \/ \E pslot \in Lamps \cup {NULL} : Disconnect(MainThread, Clicked, pslot)
    \/ DestroySignal(MainThread, Clicked)
    \/ \E r \in Lamps : ReceiverDisconnect(MainThread, r)
    \/ \E r \in Lamps : DestroyReceiver(MainThread, r)
    \/ GoOn(MainThread)
    \/ Library(MainThread)
    \/ SlotThrows(MainThread)
SpecBuilds == InitBuilds /\ [][NextBuilds]_vars

\* One thread, every build, one signal and two slot hosts, and slots that
\* may destroy one of the slot hosts.
InitTeardown == InitIn(Builds)
NextTeardown ==
    \/ \E r \in Lamps, cb \in PlainSlots \cup DestroyingSlots :
           Connect(MainThread, Clicked, r, cb)
    \/ \E a \in Args : Emit(MainThread, Clicked, a)
    \/ GoOn(MainThread)
    \/ ConnectFinish(MainThread)
    \/ EmitInvoke(MainThread)
    \/ EmitReturn(MainThread)
    \/ SlotDestroys(MainThread)
    \/ HasSlotsCall(MainThread)
    \/ HasSlotsReturn(MainThread)
    \/ SignalDestroyStep(MainThread)
    \/ SignalDestroyReturn(MainThread)
SpecTeardown == InitTeardown /\ [][NextTeardown]_vars

\* Two threads on one signal and two slot hosts, under the per-instance
\* policy.
InitLocal == InitIn({multi_threaded_local} \X Platforms)
NextLocal ==
    \E t \in Threads :
        \/ \E r \in Lamps, cb \in PlainSlots : Connect(t, Clicked, r, cb)
        \/ \E a \in Args : Emit(t, Clicked, a)
        \/ DestroySignal(t, Clicked)
        \/ \E r \in Lamps : ReceiverDisconnect(t, r)
        \/ \E r \in Lamps : DestroyReceiver(t, r)
        \/ GoOn(t)
        \/ Library(t)
SpecLocal == InitLocal /\ [][NextLocal]_vars

\* Two threads on one signal and two slot hosts, under the global policy,
\* with further objects constructed in between.
InitGlobal == InitIn({multi_threaded_global} \X Platforms)
NextGlobal ==
    \E t \in Threads :
        \/ \E r \in Lamps, cb \in PlainSlots : Connect(t, Clicked, r, cb)
        \/ \E a \in Args : Emit(t, Clicked, a)
        \/ DestroySignal(t, Clicked)
        \/ \E r \in Lamps : DestroyReceiver(t, r)
        \/ Construct(t)
        \/ GoOn(t)
        \/ Library(t)
SpecGlobal == InitGlobal /\ [][NextGlobal]_vars

\* One thread, every build, one signal and two slot hosts, and slots that
\* may connect to the signal that invokes them.
InitAppending == InitIn(Builds)
NextAppending ==
    \/ \E r \in Lamps, cb \in PlainSlots \cup ConnectingSlots :
           Connect(MainThread, Clicked, r, cb)
    \/ \E a \in Args : Emit(MainThread, Clicked, a)
    \/ GoOn(MainThread)
    \/ ConnectFinish(MainThread)
    \/ EmitInvoke(MainThread)
    \/ EmitReturn(MainThread)
    \/ SlotConnects(MainThread)
SpecAppending == InitAppending /\ [][NextAppending]_vars

\* One thread, every build, one signal and two slot hosts, and slots that
\* may destroy the signal that invokes them.
InitSelfDestroy == InitIn(Builds)
NextSelfDestroy ==
    \/ \E r \in Lamps, cb \in PlainSlots \cup SelfDestroyingSlots :
           Connect(MainThread, Clicked, r, cb)
    \/ \E a \in Args : Emit(MainThread, Clicked, a)
    \/ GoOn(MainThread)
    \/ ConnectFinish(MainThread)
    \/ EmitInvoke(MainThread)
    \/ EmitReturn(MainThread)
    \/ SlotDestroysSignal(MainThread)
    \/ SignalDestroyStep(MainThread)
    \/ SignalDestroyReturn(MainThread)
SpecSelfDestroy == InitSelfDestroy /\ [][NextSelfDestroy]_vars

\* One thread, slots that call nothing, the calls of main.cpp in any order,
\* and emits that follow an emit on the same signal.
InitRepeat == InitIn(DefaultBuilds)
NextRepeat ==
    \/ Application(MainThread, PlainSlots)
    \/ \E a \in Args : EmitAgain(MainThread, a)
    \/ Library(MainThread)
SpecRepeat == InitRepeat /\ [][NextRepeat]_vars

\* One thread under the global policy, every call of the interface; a call
\* that can go on does go on.
NextGlobalOne ==
    \/ \E r \in Lamps, cb \in PlainSlots : Connect(MainThread, Clicked, r, cb)
    \/ \E a \in Args : Emit(MainThread, Clicked, a)
    \/ \E pslot \in Lamps \cup {NULL} : Disconnect(MainThread, Clicked, pslot)
    \/ DestroySignal(MainThread, Clicked)
    \/ \E r \in Lamps : ReceiverDisconnect(MainThread, r)
    \/ \E r \in Lamps : DestroyReceiver(MainThread, r)
    \/ GoOn(MainThread)
    \/ Library(MainThread)
SpecGlobalFair ==
    InitGlobal /\ [][NextGlobalOne]_vars /\ WF_vars(Library(MainThread))

(* ------------------------- claims: vocabulary ------------------------- *)

\* Thread t's call `call` has returned and t has not gone on yet.
HasReturned(t, call) ==
    /\ Len(stack[t]) = 1
    /\ stack[t][1].op = "returned"
    /\ stack[t][1].call = call

Targets(list, r) == \E i \in DOMAIN list : list[i].dest = r
Without(list, r) == SelectSeq(list, LAMBDA c : c.dest # r)

\* What an emit(a) over `list` is to invoke, in order.
Expected(list, a) ==
    [i \in DOMAIN list |-> [dest |-> list[i].dest, cb |-> list[i].cb, a |-> a]]

\* The object whose mutex thread t's next step has to lock, or NULL.
NextLock(t) ==
    IF ~Running(t) THEN NULL
    ELSE LET f == Top(t)
         IN  IF f.op = "connect" THEN f.r
             ELSE IF f.op = "slot" /\ f.cb \in ReentrantSlots THEN f.s
             ELSE IF f.op = "slot" /\ f.cb \in ConnectingSlots
                 THEN (IF TotalConns < MaxConns THEN f.s ELSE NULL)
             ELSE IF f.op = "slot" /\ f.cb \in SelfDestroyingSlots
                 THEN (IF SignalUsable(f.s) THEN f.s ELSE NULL)
             ELSE IF f.op = "slot" /\ f.cb \in DestroyingSlots
                 THEN (IF ReceiverUsable(Victim) THEN Victim ELSE NULL)
             ELSE IF f.op = "signal_destroy" /\ f.it > 0 /\ f.destroy
                 THEN m_connected_slots[f.s][f.it].dest
             ELSE IF f.op = "has_slots_disconnect" /\ f.it # End
                 THEN (IF sigAlive[f.it] THEN f.it ELSE NULL)
             ELSE NULL

\* Thread t is inside lock() and the mutex is held: by `Holder`.
Blocked(t) == NextLock(t) # NULL /\ ~CanLock(mutex, t, NextLock(t))
Holder(o) == mutex[MutexOf(o)][1]

(* -------------------------------- C1 ---------------------------------- *)

\* C1: at no instant does the connection list of a live signal hold a
\* connection whose target slot host has been destroyed.
C1_NoDestroyedTarget ==
    \A s \in Signals :
        sigAlive[s] =>
            \A i \in DOMAIN m_connected_slots[s] :
                rcvAlive[m_connected_slots[s][i].dest]

\* A slot host was destroyed while a signal held connections to it and to
\* another slot host; the signal lives on with the other's connections.
C1_Witness ==
    \E t \in Threads, s \in Signals :
        /\ HasReturned(t, "~has_slots")
        /\ ~rcvAlive[stack[t][1].r]
        /\ sigAlive[s]
        /\ Targets(pre[t].conns[s], stack[t][1].r)
        /\ Len(m_connected_slots[s]) > 0

(* -------------------------------- C2 ---------------------------------- *)

\* C2: at no instant does the sender set of a live slot host hold a signal
\* that has been destroyed.
C2_NoDestroyedSender ==
    \A r \in Receivers :
        rcvAlive[r] => \A s \in m_senders[r] : sigAlive[s]

(* -------------------------------- C3 ---------------------------------- *)

\* C3: connect appends, so the list is in connection order; and an emit(a)
\* whose slots call nothing has, when it returns, invoked every connection of
\* the list once, in list order, each with a.
C3_EmitInvokesAllInOrder ==
    \A t \in Threads :
        /\ HasReturned(t, "connect") =>
             LET c == stack[t][1]
                 now == m_connected_slots[c.s]
             IN  /\ Len(now) = Len(pre[t].conns[c.s]) + 1
                 /\ SubSeq(now, 1, Len(now) - 1) = pre[t].conns[c.s]
                 /\ now[Len(now)].dest = c.r
        /\ HasReturned(t, "emit") =>
             stack[t][1].log = Expected(pre[t].conns[stack[t][1].s], stack[t][1].a)

\* An emit over three connections to three slot hosts has returned.
C3_Witness ==
    \E t \in Threads :
        /\ HasReturned(t, "emit")
        /\ Len(stack[t][1].log) = 3
        /\ Cardinality({stack[t][1].log[i].dest : i \in 1..3}) = 3

(* -------------------------------- C4 ---------------------------------- *)

\* C4: when disconnect(r) returns, the signal's list is its list at the call
\* without the connections to r, the others in their order; and an emit that
\* returns has invoked exactly the connections then in the list, in order.
C4_DisconnectRemovesOnlyTarget ==
    \A t \in Threads :
        /\ (HasReturned(t, "disconnect") /\ stack[t][1].r # NULL) =>
             m_connected_slots[stack[t][1].s] =
                 Without(pre[t].conns[stack[t][1].s], stack[t][1].r)
        /\ HasReturned(t, "emit") =>
             stack[t][1].log =
                 Expected(m_connected_slots[stack[t][1].s], stack[t][1].a)

\* disconnect(B) has returned on a signal connected to A, B, C in that order.
C4_Witness ==
    \E t \in Threads :
        /\ HasReturned(t, "disconnect")
        /\ LET c == stack[t][1]
               was == pre[t].conns[c.s]
           IN  /\ Len(was) = 3
               /\ was[2].dest = c.r
               /\ was[1].dest # c.r /\ was[3].dest # c.r
               /\ was[1].dest # was[3].dest
               /\ Len(m_connected_slots[c.s]) = 2

(* -------------------------------- C5 ---------------------------------- *)

\* C5: when disconnect returns, with a slot host or without, no slot host
\* left without a connection in the signal has the signal in its sender set.
C5_DisconnectCleansBackReference ==
    \A t \in Threads :
        HasReturned(t, "disconnect") =>
            \A r \in Receivers :
                ~Targets(m_connected_slots[stack[t][1].s], r) =>
                    stack[t][1].s \notin m_senders[r]

(* -------------------------------- C6 ---------------------------------- *)

\* C6: when ~has_slots returns, every live signal's list is its list at the
\* call without the connections to the destroyed slot host; no emit invokes a
\* destroyed slot host; and an emit that returns has invoked the connections
\* that remain.
C6_ReceiverDestructionDisconnects ==
    /\ "destroyed_receiver" \notin ub
    /\ \A t \in Threads :
        /\ HasReturned(t, "~has_slots") =>
             \A s \in Signals :
                 sigAlive[s] =>
                     m_connected_slots[s] = Without(pre[t].conns[s], stack[t][1].r)
        /\ HasReturned(t, "emit") =>
             /\ Len(stack[t][1].log) = Len(m_connected_slots[stack[t][1].s])
             /\ \A i \in DOMAIN stack[t][1].log :
                    /\ rcvAlive[stack[t][1].log[i].dest]
                    /\ stack[t][1].log[i].dest =
                           m_connected_slots[stack[t][1].s][i].dest

\* The slot host E, connected to both signals, has been destroyed, and one of
\* the signals still holds a connection to another slot host.
C6_Witness ==
    \E t \in Threads :
        /\ HasReturned(t, "~has_slots")
        /\ \A s \in Signals : sigAlive[s] /\ Targets(pre[t].conns[s], stack[t][1].r)
        /\ \E s \in Signals : Len(m_connected_slots[s]) > 0

(* -------------------------------- C7 ---------------------------------- *)

\* When ~signal0 returns the list is empty and no slot host one of its
\* connections targeted still has the signal in its sender set.
C7_SignalGone ==
    \A t \in Threads :
        HasReturned(t, "~signal0") =>
            /\ m_connected_slots[stack[t][1].s] = <<>>
            /\ \A r \in Receivers :
                   Targets(pre[t].conns[stack[t][1].s], r) =>
                       stack[t][1].s \notin m_senders[r]

\* has_slots::disconnect calls disconnect only on members of the sender set.
C7_CallsOnlySenders ==
    \A t \in Threads : \A i \in DOMAIN stack[t] :
        stack[t][i].op = "has_slots_disconnect" =>
            stack[t][i].it \in m_senders[stack[t][i].r] \cup {End}

\* A destroyed signal is never put into a sender set.
C7_DestroyedNeverAdded ==
    \A s \in Signals, r \in Receivers :
        (~sigAlive[s] /\ s \notin m_senders[r]) => s \notin m_senders'[r]

\* C7: destroying a signal empties its list and erases it from the sender set
\* of every slot host its connections targeted; it never comes back into one,
\* and the teardown of a slot host calls only the signals in its sender set:
\* so the teardown of those slot hosts does not call the destroyed signal.
C7_SignalDestructionErasesBackReferences ==
    /\ [](C7_SignalGone /\ C7_CallsOnlySenders)
    /\ [][C7_DestroyedNeverAdded]_vars

\* ~signal0 has returned for a signal that held connections to two slot
\* hosts, both of which had it in their sender sets.
C7_Witness ==
    \E t \in Threads :
        /\ HasReturned(t, "~signal0")
        /\ ~sigAlive[stack[t][1].s]
        /\ \E r1, r2 \in Receivers :
              /\ r1 # r2
              /\ Targets(pre[t].conns[stack[t][1].s], r1)
              /\ Targets(pre[t].conns[stack[t][1].s], r2)
              /\ stack[t][1].s \in pre[t].senders[r1]
              /\ stack[t][1].s \in pre[t].senders[r2]
              /\ rcvAlive[r1] /\ rcvAlive[r2]

(* -------------------------------- C8 ---------------------------------- *)

\* How often connection c occurs in a list, what it is to be invoked with in
\* a log.
TimesIn(list, c) == Cardinality({i \in DOMAIN list : list[i] = c})
TimesInvoked(log, c, a) ==
    Cardinality({i \in DOMAIN log :
                    log[i] = [dest |-> c.dest, cb |-> c.cb, a |-> a]})

\* C8: under every policy, when a slot calls disconnect(this) on the signal
\* invoking it, the call returns (the thread does not wait for a mutex it
\* holds itself), emit reads no erased node, and when emit returns every
\* connection still in the list has been invoked.
C8_SelfDisconnectIsSafe ==
    /\ "erased_node" \notin ub
    /\ \A t \in Threads : ~(Blocked(t) /\ Top(t).op = "slot" /\ Holder(Top(t).s) = t)
    /\ \A t \in Threads :
          HasReturned(t, "emit") =>
              LET list == m_connected_slots[stack[t][1].s]
              IN  \A i \in DOMAIN list :
                      TimesInvoked(stack[t][1].log, list[i], stack[t][1].a)
                          >= TimesIn(list, list[i])

\* The two ways C8 fails, each on its own.
C8_ReturnsFromDisconnect ==
    \A t \in Threads : ~(Blocked(t) /\ Top(t).op = "slot" /\ Holder(Top(t).s) = t)
C8_ReadsNoErasedNode == "erased_node" \notin ub

(* -------------------------------- C9 ---------------------------------- *)

\* Thread t runs the destructor of a signal, of a slot host.
InSignalDtor(t) ==
    /\ Len(stack[t]) > 0
    /\ stack[t][1].op = "signal_destroy"
    /\ stack[t][1].destroy
InHasSlotsDtor(t) ==
    /\ Len(stack[t]) > 0
    /\ stack[t][1].op = "has_slots_disconnect"
    /\ stack[t][1].dtor

\* Each of the two threads waits for the mutex the other one holds.
WaitCycle(t1, t2) ==
    /\ Blocked(t1) /\ Holder(NextLock(t1)) = t2
    /\ Blocked(t2) /\ Holder(NextLock(t2)) = t1

\* C9: under the per-instance policy, when one thread destroys a signal
\* while another destroys a slot host connected to it, the two destructors
\* never wait for each other's mutex, and once both have returned no live
\* signal holds a connection to a destroyed slot host and no live slot host
\* holds a destroyed signal in its sender set.
C9_ConcurrentDestructionCompletes ==
    \A t1, t2 \in Threads :
        /\ (InSignalDtor(t1) /\ InHasSlotsDtor(t2)) => ~WaitCycle(t1, t2)
        /\ (HasReturned(t1, "~signal0") /\ HasReturned(t2, "~has_slots")) =>
              /\ \A s \in Signals : sigAlive[s] =>
                     \A i \in DOMAIN m_connected_slots[s] :
                         rcvAlive[m_connected_slots[s][i].dest]
              /\ \A r \in Receivers : rcvAlive[r] =>
                     \A s \in m_senders[r] : sigAlive[s]

(* -------------------------------- C10 --------------------------------- *)

\* Thread t is inside the lock_block scope of an operation.
InLockedScope(t) == Len(stack[t]) > 0 /\ stack[t][1].op # "returned"

\* C10: under the global policy no two threads are inside the locked scope
\* of an operation at once, whichever objects they operate on and whatever
\* is constructed meanwhile.
C10_GlobalPolicySerialises ==
    policy = multi_threaded_global =>
        \A t1, t2 \in Threads :
            t1 # t2 => ~(InLockedScope(t1) /\ InLockedScope(t2))

\* The same on the builds whose mutex is a Win32 critical section.
C10_SerialisesOnWin32 ==
    platform = "win32" => C10_GlobalPolicySerialises

(* -------------------------------- C11 --------------------------------- *)

\* C11: an emit is left by the exception of a slot exactly when its list
\* holds a slot that throws; it has then invoked the connections up to and
\* including the first that throws, once each and in order, and none after.
C11_FailurePropagates ==
    \A t \in Threads :
        /\ HasReturned(t, "emit throws") =>
             LET list == pre[t].conns[stack[t][1].s]
             IN  \E k \in DOMAIN list :
                     /\ list[k].cb \in FailingSlots
                     /\ \A j \in 1..(k - 1) : list[j].cb \notin FailingSlots
                     /\ stack[t][1].log =
                            Expected(SubSeq(list, 1, k), stack[t][1].a)
        /\ HasReturned(t, "emit") =>
             \A i \in DOMAIN pre[t].conns[stack[t][1].s] :
                 pre[t].conns[stack[t][1].s][i].cb \notin FailingSlots

\* An emit over three connections was left by the exception of the second.
C11_Witness ==
    \E t \in Threads :
        /\ HasReturned(t, "emit throws")
        /\ Len(pre[t].conns[stack[t][1].s]) = 3
        /\ Len(stack[t][1].log) = 2
        /\ stack[t][1].log[1].cb \in PlainSlots

(* -------------------------------- C12 --------------------------------- *)

\* No call of the application is in progress.
Quiescent == \A t \in Threads : Len(stack[t]) = 0 \/ stack[t][1].op = "returned"

\* C12: whenever no operation is in progress, whether the last one returned
\* or was left by an exception, no mutex is held.
C12_LocksReleased == Quiescent => \A m \in Mutexes : mutex[m] = Free

\* Under a locking policy, an emit over a list that is not empty was left by
\* an exception.
C12_Witness ==
    /\ policy # single_threaded
    /\ Quiescent
    /\ \E t \in Threads :
          /\ HasReturned(t, "emit throws")
          /\ Len(stack[t][1].log) > 0

(* -------------------------------- C13 --------------------------------- *)

\* How many connections of a list target slot host r.
TimesTargeted(list, r) == Cardinality({i \in DOMAIN list : list[i].dest = r})

\* C13: every connect adds one connection, whether or not the list holds an
\* equal one, and leaves the signal in the slot host's sender set, a set;
\* an emit invokes a connection as many times as the list holds it.
C13_DuplicatesAreIndependent ==
    \A t \in Threads :
        /\ HasReturned(t, "connect") =>
             LET c == stack[t][1]
             IN  /\ TimesTargeted(m_connected_slots[c.s], c.r) =
                        TimesTargeted(pre[t].conns[c.s], c.r) + 1
                 /\ Cardinality({x \in m_senders[c.r] : x = c.s}) = 1
        /\ HasReturned(t, "emit") =>
             LET list == pre[t].conns[stack[t][1].s]
             IN  \A i \in DOMAIN list :
                     TimesInvoked(stack[t][1].log, list[i], stack[t][1].a) =
                         TimesIn(list, list[i])

\* An emit has invoked three times the one slot of one slot host, connected
\* three times, and the slot host's sender set is that signal alone.
C13_Witness ==
    \E t \in Threads :
        /\ HasReturned(t, "emit")
        /\ Len(stack[t][1].log) = 3
        /\ stack[t][1].log[1] = stack[t][1].log[2]
        /\ stack[t][1].log[2] = stack[t][1].log[3]
        /\ m_senders[stack[t][1].log[1].dest] = {stack[t][1].s}

(* -------------------------------- C14 --------------------------------- *)

\* C14: when disconnect() returns the signal's list is empty and the lists
\* of the other signals are what they were; an emit over an empty list
\* invokes nothing.
C14_DisconnectAll ==
    \A t \in Threads :
        /\ (HasReturned(t, "disconnect") /\ stack[t][1].r = NULL) =>
             /\ m_connected_slots[stack[t][1].s] = <<>>
             /\ \A s \in Signals \ {stack[t][1].s} :
                    m_connected_slots[s] = pre[t].conns[s]
        /\ (HasReturned(t, "emit") /\ m_connected_slots[stack[t][1].s] = <<>>) =>
             stack[t][1].log = <<>>

\* disconnect() has returned on a signal that held connections to two slot
\* hosts, while the other signal holds a connection.
C14_Witness ==
    \E t \in Threads :
        /\ HasReturned(t, "disconnect")
        /\ stack[t][1].r = NULL
        /\ LET was == pre[t].conns[stack[t][1].s]
           IN  Len(was) = 2 /\ was[1].dest # was[2].dest
        /\ \E s \in Signals \ {stack[t][1].s} : Len(m_connected_slots[s]) > 0

(* -------------------------------- C15 --------------------------------- *)

\* Thread t's call is a disconnect(r) on a signal without a connection to r.
DisconnectsStranger(t) ==
    /\ Len(stack[t]) > 0
    /\ \/ stack[t][1].op = "signal_destroy" /\ ~stack[t][1].destroy
       \/ stack[t][1].op = "returned" /\ stack[t][1].call = "disconnect"
    /\ LET r == IF stack[t][1].op = "returned" THEN stack[t][1].r
                ELSE stack[t][1].pslot
       IN  r # NULL /\ ~Targets(pre[t].conns[stack[t][1].s], r)

\* Thread t's call is an emit on a signal without connections.
EmitsNothing(t) ==
    /\ Len(stack[t]) > 0
    /\ \/ stack[t][1].op = "emit"
       \/ stack[t][1].op = "returned" /\ stack[t][1].call = "emit"
    /\ pre[t].conns[stack[t][1].s] = <<>>

\* C15: from its call to its return, a disconnect(r) on a signal without a
\* connection to r, or an emit on a signal without connections, waits for no
\* mutex, executes nothing undefined, invokes no slot and leaves every list
\* and every sender set as it was.
C15_NoOps ==
    \A t \in Threads :
        (DisconnectsStranger(t) \/ EmitsNothing(t)) =>
            /\ ~Blocked(t)
            /\ ~crashed
            /\ m_connected_slots = pre[t].conns
            /\ m_senders = pre[t].senders
            /\ stack[t][1].op \in {"emit", "returned"} => stack[t][1].log = <<>>
            /\ Len(stack[t]) = 1

\* disconnect(r) has returned on a signal that holds connections, none to r,
\* while r is connected to the other signal.
C15_Witness ==
    \E t \in Threads :
        /\ DisconnectsStranger(t)
        /\ HasReturned(t, "disconnect")
        /\ Len(m_connected_slots[stack[t][1].s]) > 0
        /\ m_senders[stack[t][1].r] # {}

(* -------------------------------- C16 --------------------------------- *)

\* Thread t's call is the destructor of a slot host no list held a
\* connection to, of a signal whose list was empty.
DestroysDisconnectedReceiver(t) ==
    /\ Len(stack[t]) > 0
    /\ \/ stack[t][1].op = "has_slots_disconnect" /\ stack[t][1].dtor
       \/ stack[t][1].op = "returned" /\ stack[t][1].call = "~has_slots"
    /\ \A s \in Signals : ~Targets(pre[t].conns[s], stack[t][1].r)
DestroysDisconnectedSignal(t) ==
    /\ Len(stack[t]) > 0
    /\ \/ stack[t][1].op = "signal_destroy" /\ stack[t][1].destroy
       \/ stack[t][1].op = "returned" /\ stack[t][1].call = "~signal0"
    /\ pre[t].conns[stack[t][1].s] = <<>>

\* C16: from its call to its return, the destructor of a slot host without
\* connections, or of a signal without connections, calls no other object
\* (its frame is the only one and its loop has no signal to call) and leaves
\* every list and every other sender set as it was.
C16_DestroyDisconnectedIsNoOp ==
    \A t \in Threads :
        /\ DestroysDisconnectedReceiver(t) =>
             /\ Len(stack[t]) = 1
             /\ stack[t][1].op = "has_slots_disconnect" => stack[t][1].it = End
             /\ m_connected_slots = pre[t].conns
             /\ \A r \in Receivers \ {stack[t][1].r} :
                    m_senders[r] = pre[t].senders[r]
        /\ DestroysDisconnectedSignal(t) =>
             /\ Len(stack[t]) = 1
             /\ m_connected_slots = pre[t].conns
             /\ m_senders = pre[t].senders

(* -------------------------------- C17 --------------------------------- *)

\* C17: in a single thread, under every policy, no call waits for a mutex
\* its own thread holds (so every call completes), and what a call leaves
\* when it returns is one function of what it found, the same for the three
\* policies: connect appends and inserts, disconnect leaves the list without
\* the slot host's connections, emit invokes the list.
C17_PoliciesSubstitutable ==
    \A t \in Threads :
        /\ ~(Blocked(t) /\ Holder(NextLock(t)) = t)
        /\ HasReturned(t, "connect") =>
             LET c == stack[t][1]
             IN  /\ Len(m_connected_slots[c.s]) = Len(pre[t].conns[c.s]) + 1
                 /\ m_senders =
                        [pre[t].senders EXCEPT ![c.r] = @ \cup {c.s}]
        /\ HasReturned(t, "disconnect") =>
             m_connected_slots[stack[t][1].s] =
                 IF stack[t][1].r = NULL THEN <<>>
                 ELSE Without(pre[t].conns[stack[t][1].s], stack[t][1].r)
        /\ HasReturned(t, "emit") =>
             stack[t][1].log =
                 Expected(pre[t].conns[stack[t][1].s], stack[t][1].a)

(* -------------------------------- C18 --------------------------------- *)

\* C18: where the build has thread support, the policy of a signal or slot
\* host declared without one is multi_threaded_global: every two objects
\* lock the same mutex.
C18_DefaultPolicyIsGlobal ==
    policy # single_threaded =>
        /\ policy = multi_threaded_global
        /\ \A o1, o2 \in Signals \cup Receivers : MutexOf(o1) = MutexOf(o2)

(* -------------------------------- C19 --------------------------------- *)

\* C19: when a slot has removed connections the walk of emit has not
\* reached, the next included, the walk goes on from a node of the list or
\* from its end and reads no erased node; once emit has returned, no slot
\* host was invoked after its slot had disconnected it, and the connections
\* of the others were all invoked.
C19_RemovedEntriesAreSkipped ==
    /\ "erased_node" \notin ub
    /\ \A t \in Threads :
          (Running(t) /\ Top(t).op = "emit") => Top(t).it # Dangling
    /\ \A t \in Threads :
          HasReturned(t, "emit") =>
              LET log == stack[t][1].log
                  list == pre[t].conns[stack[t][1].s]
              IN  /\ \A j, k \in DOMAIN log :
                         (j < k /\ log[j].cb \in ReentrantSlots) =>
                             log[k].dest # log[j].dest
                  /\ \A i \in DOMAIN list :
                         (\A j \in DOMAIN log :
                              log[j].cb \in ReentrantSlots =>
                                  log[j].dest # list[i].dest) =>
                             TimesInvoked(log, list[i], stack[t][1].a) =
                                 TimesIn(list, list[i])

(* -------------------------------- C20 --------------------------------- *)

\* C20: emit calls no slot of a destroyed slot host; in particular, once a
\* slot of another slot host has destroyed Victim, the emit in progress
\* invokes no connection to Victim.
C20_DestroyedReceiverNotInvoked ==
    /\ "destroyed_receiver" \notin ub
    /\ \A t \in Threads :
          (Len(stack[t]) > 0 /\ stack[t][1].op \in {"emit", "returned"}) =>
              LET log == stack[t][1].log
              IN  \A j, k \in DOMAIN log :
                      (j < k /\ log[j].cb \in DestroyingSlots
                             /\ log[j].dest # Victim) =>
                          log[k].dest # Victim

(* -------------------------------- C21 --------------------------------- *)

\* Thread t holds the mutex of a signal and is at the lock() of a slot host
\* (connect, ~signal0); holds the mutex of a slot host and is at the lock()
\* of a signal (has_slots::disconnect, ~has_slots).
LocksReceiverHoldingSignal(t) ==
    /\ Running(t)
    /\ Top(t).op \in {"connect", "signal_destroy"}
    /\ NextLock(t) \in Receivers
    /\ Holder(Top(t).s) = t
LocksSignalHoldingReceiver(t) ==
    /\ Running(t)
    /\ Top(t).op = "has_slots_disconnect"
    /\ NextLock(t) \in Signals
    /\ Holder(Top(t).r) = t

\* C21: under the per-instance policy the two mutexes are taken in one order:
\* no thread takes a slot host's mutex holding a signal's while another takes
\* a signal's holding a slot host's.
C21_FixedLockOrder ==
    policy = multi_threaded_local =>
        \A t1, t2 \in Threads :
            ~(LocksReceiverHoldingSignal(t1) /\ LocksSignalHoldingReceiver(t2))

(* -------------------------------- C22 --------------------------------- *)

\* Thread t is in a connect, a signal's destructor or a slot host's; its
\* call is over.
InNestingCall(t) ==
    /\ Len(stack[t]) > 0
    /\ \/ stack[t][1].op = "connect"
       \/ stack[t][1].op = "signal_destroy" /\ stack[t][1].destroy
       \/ stack[t][1].op = "has_slots_disconnect" /\ stack[t][1].dtor
CallOver(t) ==
    \/ crashed
    \/ Len(stack[t]) = 0
    \/ stack[t][1].op = "returned"

\* C22: under the global policy every connect and every destructor that a
\* thread has started is over at some later time.
C22_GlobalPolicyReturns ==
    \A t \in Threads : InNestingCall(t) ~> CallOver(t)

(* -------------------------------- C23 --------------------------------- *)

\* The frames of thread t that read or change the list of signal s: connect,
\* emit and signal_destroy run wholly under lock_block lock(this).
WorksOnList(t, s) ==
    \E i \in DOMAIN stack[t] :
        /\ stack[t][i].op \in {"connect", "emit", "signal_destroy"}
        /\ stack[t][i].s = s
WorksOnSet(t, r) ==
    \E i \in DOMAIN stack[t] :
        /\ stack[t][i].op = "has_slots_disconnect"
        /\ stack[t][i].r = r
Emits(t, s) ==
    \E i \in DOMAIN stack[t] : stack[t][i].op = "emit" /\ stack[t][i].s = s

RECURSIVE WalkFrom(_, _)
WalkFrom(list, i) ==
    IF i > Len(list) THEN <<>>
    ELSE LET grown ==
                 IF list[i].cb \in ConnectingSlots /\ Len(list) < MaxConns
                     THEN Append(list, [dest |-> list[i].dest,
                                        cb |-> "ToggleState"])
                     ELSE list
         IN  <<list[i]>> \o (IF i = Len(list) THEN <<>>
                             ELSE WalkFrom(grown, i + 1))

\* C24: when an emit during which slots connected to the signal returns, it
\* has invoked, once each and in list order, the entries that were in the
\* list when the walk reached their position: not the entry appended while
\* the last entry ran, and every entry appended while an earlier one ran.
C24_AppendedDuringEmit ==
    \A t \in Threads :
        HasReturned(t, "emit") =>
            LET log == stack[t][1].log
                list == m_connected_slots[stack[t][1].s]
            IN  /\ log = Expected(WalkFrom(pre[t].conns[stack[t][1].s], 1),
                                  stack[t][1].a)
                /\ log = SubSeq(Expected(list, stack[t][1].a), 1, Len(log))

\* An emit over two connections has returned: the first slot appended a
\* third, which was invoked; the second, then not the last, appended a
\* fourth entry only if there was room.
C24_Witness ==
    \E t \in Threads :
        /\ HasReturned(t, "emit")
        /\ Len(pre[t].conns[stack[t][1].s]) = 2
        /\ Len(stack[t][1].log) = 3
        /\ stack[t][1].log[1].cb \in ConnectingSlots
        /\ stack[t][1].log[3].cb \in PlainSlots

\* An emit has returned whose last entry appended one that was not invoked.
C24_WitnessLast ==
    \E t \in Threads :
        /\ HasReturned(t, "emit")
        /\ Len(stack[t][1].log) = Len(pre[t].conns[stack[t][1].s])
        /\ Len(m_connected_slots[stack[t][1].s]) = Len(stack[t][1].log) + 1

(* -------------------------------- C25 --------------------------------- *)

\* What the calls that have returned left of the connections: connect put its
\* connection into one list; a disconnect, ~signal0 and ~has_slots discarded
\* the connections they match and no other; emit discarded none.
DiscardedWhatMatched ==
    \A t \in Threads :
        /\ HasReturned(t, "connect") =>
             \A s \in Signals :
                 Len(m_connected_slots[s]) =
                     Len(pre[t].conns[s]) + (IF s = stack[t][1].s THEN 1 ELSE 0)
        /\ HasReturned(t, "emit") => m_connected_slots = pre[t].conns
        /\ HasReturned(t, "disconnect") =>
             \A s \in Signals :
                 m_connected_slots[s] =
                     IF s # stack[t][1].s THEN pre[t].conns[s]
                     ELSE IF stack[t][1].r = NULL THEN <<>>
                     ELSE Without(pre[t].conns[s], stack[t][1].r)
        /\ HasReturned(t, "~signal0") =>
             \A s \in Signals :
                 m_connected_slots[s] =
                     IF s = stack[t][1].s THEN <<>> ELSE pre[t].conns[s]
        /\ HasReturned(t, "~has_slots") =>
             \A s \in Signals :
                 sigAlive[s] =>
                     m_connected_slots[s] = Without(pre[t].conns[s], stack[t][1].r)

\* No connection is left in the list of a destroyed signal.
NoneOutlivesItsSignal ==
    \A s \in Signals : ~sigAlive[s] => m_connected_slots[s] = <<>>

\* One step changes one list at most: by one connection put at its end, or
\* by taking out the one node that the signal_destroy running on that signal
\* stands on, a node in the list, whose connection the call matches.
DiscardsOneItMatches ==
    \A s \in Signals :
        LET old == m_connected_slots[s]
            new == m_connected_slots'[s]
        IN  \/ new = old
            \/ /\ Len(new) = Len(old) + 1
               /\ SubSeq(new, 1, Len(old)) = old
               /\ \A s2 \in Signals \ {s} : UNCHANGED m_connected_slots[s2]
            \/ /\ \A s2 \in Signals \ {s} : UNCHANGED m_connected_slots[s2]
               /\ \E k \in DOMAIN old :
                    /\ new = [i \in 1..(Len(old) - 1) |->
                                 IF i < k THEN old[i] ELSE old[i + 1]]
                    /\ \E t \in Threads :
                         /\ Len(stack[t]) > 0
                         /\ Top(t).op = "signal_destroy"
                         /\ Top(t).s = s
                         /\ Top(t).it = k
                         /\ Top(t).pslot \in {NULL, old[k].dest}

\* C25: a connection is in the list of one signal, and leaves it once: taken
\* out by a disconnect that matches it, by ~signal0 of its signal or by
\* ~has_slots of its slot host, whichever comes first; no erased node is
\* erased again, and none is left when its signal is destroyed.
C25_DiscardedExactlyOnce ==
    /\ [](DiscardedWhatMatched /\ NoneOutlivesItsSignal /\ "erased_node" \notin ub)
    /\ [][DiscardsOneItMatches]_vars

\* ~signal0 has returned for a signal with two connections, after a slot host
\* was destroyed, while the other signal keeps its connection.
C25_Witness ==
    \E t \in Threads :
        /\ HasReturned(t, "~signal0")
        /\ Len(pre[t].conns[stack[t][1].s]) >= 2
        /\ \E r \in Receivers : ~rcvAlive[r]
        /\ \E s \in Signals : sigAlive[s] /\ Len(m_connected_slots[s]) > 0

(* -------------------------------- C26 --------------------------------- *)

\* C26: when connect(s, r, callback) returns, the list of s is its list at
\* the call with one connection to r after it, the other lists are what they
\* were, and the sender set of r is its set at the call with s in it.
C26_ConnectAppendsAndRegisters ==
    \A t \in Threads :
        HasReturned(t, "connect") =>
            LET c == stack[t][1]
                was == pre[t].conns[c.s]
                now == m_connected_slots[c.s]
            IN  /\ Len(now) = Len(was) + 1
                /\ \A i \in DOMAIN was : now[i] = was[i]
                /\ now[Len(now)].dest = c.r
                /\ \A s \in Signals \ {c.s} :
                       m_connected_slots[s] = pre[t].conns[s]
                /\ c.s \in m_senders[c.r]
                /\ m_senders[c.r] = pre[t].senders[c.r] \cup {c.s}
                /\ \A r \in Receivers \ {c.r} : m_senders[r] = pre[t].senders[r]

\* connect has returned on a signal that had connections to two other slot
\* hosts, for a slot host the signal was not in the sender set of.
C26_Witness ==
    \E t \in Threads :
        /\ HasReturned(t, "connect")
        /\ LET c == stack[t][1]
               was == pre[t].conns[c.s]
           IN  /\ Len(was) = 2
               /\ was[1].dest # was[2].dest
               /\ ~Targets(was, c.r)
               /\ c.s \notin pre[t].senders[c.r]
               /\ Len(m_connected_slots[c.s]) = 3

(* -------------------------------- C27 --------------------------------- *)

\* An emit whose signal has been destroyed invokes nothing more: what it has
\* invoked stays what it was when the destructor returned.
InvokesNoFurther ==
    \A t \in Threads : \A i \in DOMAIN stack[t] :
        (/\ stack[t][i].op = "emit"
         /\ ~sigAlive[stack[t][i].s]
         /\ i \in DOMAIN stack'[t]
         /\ stack'[t][i].op = "emit") =>
            stack'[t][i].log = stack[t][i].log

\* C27: when a slot destroys the signal that is emitting, the emit invokes no
\* further connection, reads no node of the destroyed list and calls nothing
\* of the destroyed signal.
C27_StopsAtDestroyedSignal ==
    /\ []("destroyed_signal" \notin ub /\ "erased_node" \notin ub)
    /\ [][InvokesNoFurther]_vars

(* -------------------------------- C28 --------------------------------- *)

\* C28: the sender set of a slot host holds a signal once however many of the
\* signal's connections target the slot host: a connect adds one member to it
\* when the signal was not in it and none when it was; and when ~signal0
\* returns, the set of every slot host its connections targeted is the set at
\* the call without the signal, every other set what it was.
C28_OneBackReferencePerSignal ==
    \A t \in Threads :
        /\ HasReturned(t, "connect") =>
             Cardinality(m_senders[stack[t][1].r]) =
                 Cardinality(pre[t].senders[stack[t][1].r])
                     + (IF stack[t][1].s \in pre[t].senders[stack[t][1].r]
                          THEN 0 ELSE 1)
        /\ HasReturned(t, "~signal0") =>
             \A r \in Receivers :
                 m_senders[r] =
                     IF Targets(pre[t].conns[stack[t][1].s], r)
                       THEN pre[t].senders[r] \ {stack[t][1].s}
                       ELSE pre[t].senders[r]

\* ~signal0 has returned for a signal with two connections to one slot host
\* that had both signals in its sender set, and has the other one still.
C28_Witness ==
    \E t \in Threads, r \in Receivers :
        /\ HasReturned(t, "~signal0")
        /\ TimesTargeted(pre[t].conns[stack[t][1].s], r) >= 2
        /\ pre[t].senders[r] = Signals
        /\ m_senders[r] = Signals \ {stack[t][1].s}
        /\ rcvAlive[r]

(* -------------------------------- C29 --------------------------------- *)

\* C29: whenever no call is in progress, every live signal that holds a
\* connection to a live slot host is in the sender set of that slot host.
C29_TargetsKnowTheirSenders ==
    Quiescent =>
        \A s \in Signals, r \in Receivers :
            (sigAlive[s] /\ rcvAlive[r] /\ Targets(m_connected_slots[s], r)) =>
                s \in m_senders[r]

\* No call is in progress; a slot host has been destroyed, and another is the
\* target of connections of both signals, one of them after a disconnect.
C29_Witness ==
    /\ Quiescent
    /\ \E r1, r2 \in Receivers :
          /\ ~rcvAlive[r1]
          /\ rcvAlive[r2]
          /\ \A s \in Signals : sigAlive[s] /\ Targets(m_connected_slots[s], r2)
    /\ \E t \in Threads :
          /\ HasReturned(t, "connect")
          /\ stack[t][1].s \in pre[t].senders[stack[t][1].r]
          /\ ~Targets(pre[t].conns[stack[t][1].s], stack[t][1].r)

(* -------------------------------- C30 --------------------------------- *)

\* When disconnect() of a slot host returns, the slot host is alive and its
\* sender set empty; the list of every live signal that was in the set is its
\* list at the call without the connections to the slot host, every other
\* list and every other sender set what it was.
DisconnectedFromAll ==
    \A t \in Threads :
        HasReturned(t, "has_slots::disconnect") =>
            LET r == stack[t][1].r
            IN  /\ rcvAlive[r]
                /\ m_senders[r] = {}
                /\ \A s \in Signals :
                       sigAlive[s] =>
                           m_connected_slots[s] =
                               IF s \in pre[t].senders[r]
                                 THEN Without(pre[t].conns[s], r)
                                 ELSE pre[t].conns[s]
                /\ \A r2 \in Receivers \ {r} : m_senders[r2] = pre[t].senders[r2]

\* Every member of the sender set that disconnect() of a slot host calls
\* disconnect(this) on is a signal that is alive.
DisconnectCallsLiveSignals ==
    \A t \in Threads : \A i \in DOMAIN stack[t] :
        (/\ stack[t][i].op = "has_slots_disconnect"
         /\ ~stack[t][i].dtor
         /\ stack[t][i].it # End) =>
            sigAlive[stack[t][i].it]

\* C30: disconnect() of a live slot host calls disconnect(this) on every
\* signal in its sender set, each of them a signal it can call, and returns
\* with the set empty, the connections to it gone from those signals, the
\* other connections in place and in order, and the slot host alive for
\* later calls of connect.
C30_ReceiverDisconnect ==
    DisconnectedFromAll /\ DisconnectCallsLiveSignals

(* -------------------------------- C31 --------------------------------- *)

\* The slot hosts and member functions a log names, in its order.
Callbacks(log) == [i \in DOMAIN log |-> [dest |-> log[i].dest, cb |-> log[i].cb]]

\* C31: from its call to its return, an emit whose slots call nothing leaves
\* every connection list and every sender set what it was; and an emit that
\* follows an emit on the same signal has, when it returns, invoked the slots
\* the first one invoked, in the same order.
C31_EmitChangesNothing ==
    \A t \in Threads :
        /\ (Len(stack[t]) > 0 /\ stack[t][1].op = "emit") =>
             /\ m_connected_slots = pre[t].conns
             /\ m_senders = pre[t].senders
        /\ HasReturned(t, "emit") =>
             /\ m_connected_slots = pre[t].conns
             /\ m_senders = pre[t].senders
             /\ "last" \in DOMAIN pre[t] =>
                    Callbacks(stack[t][1].log) = Callbacks(pre[t].last)

\* The second of two emits on a signal has returned, with another argument,
\* having invoked two connections to two slot hosts; the other signal holds a
\* connection as well.
C31_Witness ==
    \E t \in Threads :
        /\ HasReturned(t, "emit")
        /\ "last" \in DOMAIN pre[t]
        /\ Len(stack[t][1].log) = 2
        /\ stack[t][1].log[1].dest # stack[t][1].log[2].dest
        /\ pre[t].last[1].a # stack[t][1].log[1].a
        /\ \E s \in Signals \ {stack[t][1].s} : Len(m_connected_slots[s]) > 0

(* -------------------------------- C32 --------------------------------- *)

\* When connect, disconnect or ~signal0 of a signal returns, the list of
\* every other signal is what it was, and every other signal is in the sender
\* sets it was in.
LeavesOtherSignals ==
    \A t \in Threads :
        (\/ HasReturned(t, "connect")
         \/ HasReturned(t, "disconnect")
         \/ HasReturned(t, "~signal0")) =>
            \A s2 \in Signals \ {stack[t][1].s} :
                /\ m_connected_slots[s2] = pre[t].conns[s2]
                /\ \A r \in Receivers :
                       s2 \in pre[t].senders[r] => s2 \in m_senders[r]

\* The destructor of a slot host that a live signal holds connections to
\* calls no destroyed signal while those connections are in that list; and
\* when it returns no live signal holds a connection to the slot host.
DestructionReachesOtherSignals ==
    \A t \in Threads :
        /\ \A i \in DOMAIN stack[t] :
               (/\ stack[t][i].op = "has_slots_disconnect"
                /\ stack[t][i].dtor
                /\ stack[t][i].it # End
                /\ ~sigAlive[stack[t][i].it]) =>
                   \A s2 \in Signals :
                       sigAlive[s2] =>
                           ~Targets(m_connected_slots[s2], stack[t][i].r)
        /\ HasReturned(t, "~has_slots") =>
               \A s2 \in Signals :
                   sigAlive[s2] =>
                       ~Targets(m_connected_slots[s2], stack[t][1].r)

\* C32: connect, disconnect and ~signal0 of one signal leave the list of
\* every other signal and its place in the sender sets as they were; and the
\* destructor of a slot host, whatever was done to one signal before, takes
\* the slot host's connections out of the other.
C32_SignalsAreIndependent ==
    LeavesOtherSignals /\ DestructionReachesOtherSignals

====
